---- MODULE Spec2Model ----
(***************************************************************************)
(* Model of app.py: the daily-rotation fantasy football blogs API.         *)
(*                                                                         *)
(* State: the module globals ALL_BLOGS and BLOGS_DATA, the source document *)
(* read by load_blogs_from_json, the UTC clock, and the locals/response of *)
(* the request being served.  One action per operation: the load that runs *)
(* at import, the five route handlers, and the advance of the clock.       *)
(*                                                                         *)
(* Values.  A JSON element of the blogs list is a record with a kind:      *)
(* "dict" (a blog record; player_name, word_count and position may each be *)
(* absent) or "scalar" (an element that is not a record, e.g. 5).  A       *)
(* string is a sequence of one-character strings, so that str.lower() is   *)
(* computed character by character.  A datetime is an ordinal day          *)
(* (date.toordinal()) and a second of that day; microseconds are dropped.  *)
(***************************************************************************)
EXTENDS Integers, Sequences, FiniteSets, TLC

VARIABLES file, ALL_BLOGS, BLOGS_DATA, load_result, now, call, response

vars == <<file, ALL_BLOGS, BLOGS_DATA, load_result, now, call, response>>

----------------------------------------------------------------------------
(* Bounds of the model *)

\* longest exhaustively enumerated blogs list
MaxLen == 2
\* days of clock range before and after the reference epoch
DaysBefore == 2
DaysAfter == 8

(* Program constants *)

\* date(2025, 1, 1).toordinal()
EpochOrdinal == 739252
\* datetime.timedelta: one day is 86400 seconds
SecondsPerDay == 86400
\* days_since_start % 7
CycleLength == 7
\* day_in_cycle * 5, start_index + 5
WindowSize == 5

----------------------------------------------------------------------------
(* Strings *)

Min(a, b) == IF a < b THEN a ELSE b
Max(a, b) == IF a > b THEN a ELSE b

\* str.lower() on one character of the alphabet used by the inputs
LowerChar(c) ==
    CASE c = "A" -> "a"
      [] c = "B" -> "b"
      [] c = "P" -> "p"
      [] OTHER -> c

\* str.lower()
Lower(s) == [i \in 1..Len(s) |-> LowerChar(s[i])]

DigitChar == <<"0", "1", "2", "3", "4", "5", "6", "7", "8", "9">>

\* decimal digits of n, 0 <= n < 100
Digits(n) ==
    IF n < 10 THEN <<DigitChar[n + 1]>>
    ELSE <<DigitChar[(n \div 10) + 1], DigitChar[(n % 10) + 1]>>

----------------------------------------------------------------------------
(* Input documents *)

\* a blog record of the export file
Blog(hasName, name, hasWc, wc, hasPos, pos) ==
    [kind |-> "dict", has_name |-> hasName, player_name |-> name,
     has_wc |-> hasWc, word_count |-> wc, has_pos |-> hasPos, position |-> pos]

\* a list element that is not a record
Scalar == [kind |-> "scalar", has_name |-> FALSE, player_name |-> <<>>,
           has_wc |-> FALSE, word_count |-> 0, has_pos |-> FALSE, position |-> ""]

SmallElements ==
    { Blog(TRUE, <<"a">>, TRUE, 2, TRUE, "QB"),
      Blog(TRUE, <<"A">>, FALSE, 0, FALSE, ""),
      Blog(TRUE, <<"b">>, TRUE, 3, TRUE, "RB"),
      Blog(FALSE, <<>>, TRUE, 1, TRUE, "QB"),
      Blog(TRUE, <<>>, TRUE, 4, FALSE, ""),
      Scalar }

SmallLists == UNION { [1..n -> SmallElements] : n \in 0..MaxLen }

\* the record named Pn
PlayerN(n) == Blog(TRUE, <<"P">> \o Digits(n), TRUE, n, TRUE, "WR")

LargeLens == {6, 33, 35, 36}

LargeLists == { [i \in 1..n |-> PlayerN(i)] : n \in LargeLens }

\* the export file as load_blogs_from_json finds it
FileAbsent == [exists |-> FALSE, parses |-> FALSE, shape |-> "none", items |-> <<>>]
FileMalformed == [exists |-> TRUE, parses |-> FALSE, shape |-> "none", items |-> <<>>]
FileOtherShape == [exists |-> TRUE, parses |-> TRUE, shape |-> "other", items |-> <<>>]
FileBlogs(shape, items) == [exists |-> TRUE, parses |-> TRUE, shape |-> shape, items |-> items]

Files ==
    {FileAbsent, FileMalformed, FileOtherShape}
    \cup { FileBlogs(sh, l) : sh \in {"dict_blogs", "list"}, l \in SmallLists }
    \cup { FileBlogs("dict_blogs", l) : l \in LargeLists }

\* names asked for in GET /api/blogs/<player_name>
Queries == { <<"a">>, <<"A">>, <<"B">>, <<"c">>, <<"p", "1", "6">>, <<"P", "1">> }

----------------------------------------------------------------------------
(* Clock *)

DateTime(ordinal, second) == [ordinal |-> ordinal, second |-> second]

\* seconds of the day at which the clock is observed
GridSeconds == {0, 1, SecondsPerDay \div 2, SecondsPerDay - 1}

FirstDay == EpochOrdinal - DaysBefore
LastDay == EpochOrdinal + DaysAfter

GridInstants == { DateTime(d, s) : d \in FirstDay..LastDay, s \in GridSeconds }

\* datetime + timedelta(seconds=n)
AddSeconds(t, n) ==
    LET total == t.second + n
    IN  DateTime(t.ordinal + (total \div SecondsPerDay), total % SecondsPerDay)

\* the first grid instant after t
NextInstant(t) ==
    IF \E s \in GridSeconds : s > t.second
    THEN DateTime(t.ordinal, CHOOSE s \in GridSeconds :
                      s > t.second /\ \A u \in GridSeconds : u > t.second => s <= u)
    ELSE DateTime(t.ordinal + 1, 0)

\* the time that passes between two clock reads of one handler
Drift == {0, 1}

----------------------------------------------------------------------------
(* get_daily_blogs *)

\* variant: the epoch built in a zone one hour behind UTC
start_date_offset == DateTime(EpochOrdinal, 3600)

\* datetime(2025, 1, 1, tzinfo=timezone.utc)
start_date == DateTime(EpochOrdinal, 0)

\* (today - start_date).days : timedelta normalises to 0 <= seconds < 86400
\* so .days is the floor of the difference in days
\* variant: the difference converted with int(total_seconds() / 86400)
days_since_start_trunc(today) ==
    LET delta == ((today.ordinal - start_date.ordinal) * SecondsPerDay)
                    + (today.second - start_date.second)
    IN  IF delta >= 0 THEN delta \div SecondsPerDay
        ELSE 0 - ((0 - delta) \div SecondsPerDay)

days_since_start(today) ==
    (((today.ordinal - start_date.ordinal) * SecondsPerDay)
        + (today.second - start_date.second)) \div SecondsPerDay

\* variant: a six-day cycle
day_in_cycle_short(today) == days_since_start(today) % (CycleLength - 1)

day_in_cycle(today) == days_since_start(today) % CycleLength

\* variant: the window starts one day's worth too far
start_index_next(today) == (day_in_cycle(today) + 1) * WindowSize

start_index(today) == day_in_cycle(today) * WindowSize

end_index(today, blogs) == Min(start_index(today) + WindowSize, Len(blogs))

\* list[a:b] for a, b >= 0
Slice(s, a, b) ==
    LET lo == Min(a, Len(s))
        hi == Min(b, Len(s))
    IN  IF hi <= lo THEN <<>> ELSE SubSeq(s, lo + 1, hi)

get_daily_blogs(blogs, today) ==
    IF blogs = <<>> THEN <<>>
    ELSE Slice(blogs, start_index(today), end_index(today, blogs))

----------------------------------------------------------------------------
(* load_blogs_from_json *)

EmptyDict == [k \in {} |-> k]

\* d[k] = v
DictSet(d, k, v) == [x \in (DOMAIN d) \cup {k} |-> IF x = k THEN v ELSE d[x]]

\* index of the first element on which blog.get raises, 0 if none
FirstNonRecord(items) ==
    IF \E i \in 1..Len(items) : items[i].kind # "dict"
    THEN CHOOSE i \in 1..Len(items) :
            /\ items[i].kind # "dict"
            /\ \A j \in 1..(i - 1) : items[j].kind = "dict"
    ELSE 0

\* blog.get('player_name') is truthy
HasTruthyName(blog) == blog.has_name /\ blog.player_name # <<>>

\* variant: the loop runs over ALL_BLOGS[1:]
RECURSIVE Populate_skip_first(_, _, _)
Populate_skip_first(d, items, n) ==
    IF n <= 1 THEN d
    ELSE LET prev == Populate_skip_first(d, items, n - 1)
             blog == items[n]
         IN  IF blog.has_name /\ blog.player_name # <<>>
             THEN [x \in (DOMAIN prev) \cup {blog.player_name} |->
                      IF x = blog.player_name THEN blog ELSE prev[x]]
             ELSE prev

\* the loop "for blog in ALL_BLOGS" over the first n elements
RECURSIVE Populate(_, _, _)
Populate(d, items, n) ==
    IF n = 0 THEN d
    ELSE LET prev == Populate(d, items, n - 1)
             blog == items[n]
         IN  IF HasTruthyName(blog)
             THEN DictSet(prev, blog.player_name, blog)
             ELSE prev

Load ==
    /\ load_result = "pending"
    /\ IF ~file.exists \/ ~file.parses \/ file.shape = "other"
       THEN /\ load_result' = "failed"
            /\ UNCHANGED <<ALL_BLOGS, BLOGS_DATA>>
       ELSE LET bad == FirstNonRecord(file.items)
            IN  /\ ALL_BLOGS' = file.items
                /\ IF bad = 0
                   THEN /\ BLOGS_DATA' = Populate(BLOGS_DATA, file.items, Len(file.items))
                        /\ load_result' = "ok"
                   ELSE /\ BLOGS_DATA' = Populate(BLOGS_DATA, file.items, bad - 1)
                        /\ load_result' = "failed"
    /\ UNCHANGED <<file, now, call, response>>

----------------------------------------------------------------------------
(* Requests *)

\* the last invocation of get_daily_blogs: the instant it ran at, whether it
\* got as far as reading the clock, and what it returned
NoCall == [made |-> FALSE, clock_read |-> FALSE, today |-> start_date, daily_blogs |-> <<>>]
Called(blogs, today) ==
    [made |-> TRUE, clock_read |-> blogs # <<>>, today |-> today,
     daily_blogs |-> get_daily_blogs(blogs, today)]
NoResponse == [endpoint |-> "none", status |-> 0]

Serving == load_result # "pending"

\* the clock advances between requests
Tick ==
    /\ Serving
    /\ now.ordinal <= LastDay
    /\ now' = NextInstant(now)
    /\ call' = NoCall
    /\ response' = NoResponse
    /\ UNCHANGED <<file, ALL_BLOGS, BLOGS_DATA, load_result>>

\* blog['player_name'] evaluates without raising (the value is a string)
Subscriptable(blog) == blog.kind = "dict" /\ blog.has_name

\* an unhandled exception in a handler: Flask answers 500
InternalError(endpoint) == [endpoint |-> endpoint, status |-> 500]

\* the same for GET /api/blogs/<player_name>; query is the path parameter
\* of the request, kept with every response of that endpoint
PlayerError(player_name) ==
    [endpoint |-> "api_player", status |-> 500, query |-> player_name]

\* [blog['player_name'] for blog in blogs]
PlayerNames(blogs) == [i \in 1..Len(blogs) |-> blogs[i].player_name]

\* f"{a}-{b}"
FormatRange(a, b) == Digits(a) \o <<"-">> \o Digits(b)

\* variant: the range is formatted without the "if daily_blogs" test
blogs_range_always(daily_blogs, dic, blogs) ==
    FormatRange(dic * WindowSize + 1, Min((dic + 1) * WindowSize, Len(blogs)))

\* f"{day_in_cycle * 5 + 1}-{min((day_in_cycle + 1) * 5, len(ALL_BLOGS))}"
\*     if daily_blogs else "None"
blogs_range(daily_blogs, dic, blogs) ==
    IF daily_blogs # <<>>
    THEN FormatRange(dic * WindowSize + 1, Min((dic + 1) * WindowSize, Len(blogs)))
    ELSE <<"N", "o", "n", "e">>

\* GET / ; debug_info's directory listing and the endpoint directory are
\* constants of the environment and are left out of the body
home ==
    /\ Serving
    /\ response = NoResponse
    /\ \E dt \in Drift :
         LET daily_blogs == get_daily_blogs(ALL_BLOGS, now)
             today == AddSeconds(now, dt)
             dic == day_in_cycle(today)
         IN  /\ now' = today
             /\ call' = Called(ALL_BLOGS, now)
             /\ response' =
                  IF \E i \in 1..Len(daily_blogs) : ~Subscriptable(daily_blogs[i])
                  THEN InternalError("home")
                  ELSE [endpoint |-> "home", status |-> 200,
                        total_blogs_in_system |-> Len(ALL_BLOGS),
                        blogs_showing_today |-> Len(daily_blogs),
                        current_day_in_cycle |-> dic + 1,
                        date |-> today.ordinal,
                        blogs_range |-> blogs_range(daily_blogs, dic, ALL_BLOGS),
                        todays_players |-> PlayerNames(daily_blogs),
                        blogs_loaded |-> Len(ALL_BLOGS) > 0]
    /\ UNCHANGED <<file, ALL_BLOGS, BLOGS_DATA, load_result>>

\* GET /api/blogs
get_daily_blogs_api ==
    /\ Serving
    /\ response = NoResponse
    /\ \E dt \in Drift :
         LET daily_blogs == get_daily_blogs(ALL_BLOGS, now)
             today == AddSeconds(now, dt)
             dic == day_in_cycle(today)
         IN  /\ now' = today
             /\ call' = Called(ALL_BLOGS, now)
             /\ response' = [endpoint |-> "api_blogs", status |-> 200,
                             date |-> today.ordinal,
                             day_in_cycle |-> dic + 1,
                             count |-> Len(daily_blogs),
                             blogs |-> daily_blogs]
    /\ UNCHANGED <<file, ALL_BLOGS, BLOGS_DATA, load_result>>

\* GET /api/blogs/all
get_all_blogs ==
    /\ Serving
    /\ response = NoResponse
    /\ response' = [endpoint |-> "api_blogs_all", status |-> 200,
                    count |-> Len(ALL_BLOGS), blogs |-> ALL_BLOGS]
    /\ UNCHANGED <<file, ALL_BLOGS, BLOGS_DATA, load_result, now, call>>

\* blog['player_name'].lower() == player_name.lower()
NameMatches(blog, player_name) == Lower(blog.player_name) = Lower(player_name)

\* index of the first element of blogs at which the scan stops, because the
\* comparison raises or because it matches; 0 if the scan runs to the end
FirstStop(blogs, player_name) ==
    LET stops(i) == ~Subscriptable(blogs[i]) \/ NameMatches(blogs[i], player_name)
    IN  IF \E i \in 1..Len(blogs) : stops(i)
        THEN CHOOSE i \in 1..Len(blogs) : stops(i) /\ \A j \in 1..(i - 1) : ~stops(j)
        ELSE 0

\* GET /api/blogs/<player_name>
get_player_blog ==
    /\ Serving
    /\ response = NoResponse
    /\ \E player_name \in Queries :
         LET daily_blogs == get_daily_blogs(ALL_BLOGS, now)
             hit == FirstStop(daily_blogs, player_name)
             any == FirstStop(ALL_BLOGS, player_name)
         IN  /\ call' = Called(ALL_BLOGS, now)
             /\ response' =
                  IF hit # 0
                  THEN IF Subscriptable(daily_blogs[hit])
                       THEN [endpoint |-> "api_player", status |-> 200,
                             query |-> player_name, blog |-> daily_blogs[hit]]
                       ELSE PlayerError(player_name)
                  ELSE IF any # 0
                  THEN IF Subscriptable(ALL_BLOGS[any])
                       THEN [endpoint |-> "api_player", status |-> 404,
                             query |-> player_name,
                             error |-> "Player not showing today",
                             todays_players |-> PlayerNames(daily_blogs)]
                       ELSE PlayerError(player_name)
                  ELSE [endpoint |-> "api_player", status |-> 404,
                        query |-> player_name, error |-> "Player not found"]
    /\ UNCHANGED <<file, ALL_BLOGS, BLOGS_DATA, load_result, now>>

\* sum(blog.get('word_count', 0) for blog in blogs), all elements records
RECURSIVE SumWords(_)
SumWords(blogs) ==
    IF blogs = <<>> THEN 0
    ELSE (IF Head(blogs).has_wc THEN Head(blogs).word_count ELSE 0)
            + SumWords(Tail(blogs))

\* blog.get('position', 'Unknown')
PositionOf(blog) == IF blog.has_pos THEN blog.position ELSE "Unknown"

\* the positions counter built by the loop over ALL_BLOGS
Positions(blogs) ==
    [p \in { PositionOf(blogs[i]) : i \in 1..Len(blogs) } |->
        Cardinality({ i \in 1..Len(blogs) : PositionOf(blogs[i]) = p })]

\* GET /api/stats
get_stats ==
    /\ Serving
    /\ response = NoResponse
    /\ IF ALL_BLOGS = <<>>
       THEN /\ response' = [endpoint |-> "api_stats", status |-> 200,
                            total_blogs |-> 0, message |-> "No blogs loaded"]
            /\ call' = call
       ELSE LET daily_blogs == get_daily_blogs(ALL_BLOGS, now)
            IN  /\ call' = Called(ALL_BLOGS, now)
                /\ response' =
                     IF \E i \in 1..Len(ALL_BLOGS) : ALL_BLOGS[i].kind # "dict"
                     THEN InternalError("api_stats")
                     ELSE [endpoint |-> "api_stats", status |-> 200,
                           total_blogs_in_system |-> Len(ALL_BLOGS),
                           blogs_showing_today |-> Len(daily_blogs),
                           total_words_all_blogs |-> SumWords(ALL_BLOGS),
                           words_in_todays_blogs |-> SumWords(daily_blogs),
                           positions |-> Positions(ALL_BLOGS)]
    /\ UNCHANGED <<file, ALL_BLOGS, BLOGS_DATA, load_result, now>>

Init ==
    /\ file \in Files
    /\ ALL_BLOGS = <<>>
    /\ BLOGS_DATA = EmptyDict
    /\ load_result = "pending"
    /\ now \in GridInstants
    /\ call = NoCall
    /\ response = NoResponse

Next ==
    \/ Load
    \/ Tick
    \/ home
    \/ get_daily_blogs_api
    \/ get_all_blogs
    \/ get_player_blog
    \/ get_stats

Spec == Init /\ [][Next]_vars

----------------------------------------------------------------------------
(* Properties *)

N == Len(ALL_BLOGS)

\* the catalog window of cycle position c, written out index by index
WindowAt(c) ==
    [j \in 1..Min(WindowSize, Max(0, N - (WindowSize * c))) |->
        ALL_BLOGS[(WindowSize * c) + j]]

AtOrAfterEpoch(t) == t.ordinal >= EpochOrdinal

\* t moved by k whole days
PlusDays(t, k) == DateTime(t.ordinal + k, t.second)

\* seconds from the reference epoch to t, negative before it
SecondsSinceEpoch(t) == ((t.ordinal - EpochOrdinal) * SecondsPerDay) + t.second

\* record i of the catalog is in the window get_daily_blogs returns at t
InWindow(i, t) ==
    LET w == get_daily_blogs(ALL_BLOGS, t)
        s == start_index(t)
    IN  /\ i > s
        /\ i <= s + Len(w)
        /\ w[i - s] = ALL_BLOGS[i]

\* C1: at every instant at or after the reference epoch, get_daily_blogs
\* returns the records at indices [startIndex, min(startIndex + 5, N)) in
\* catalog order, startIndex = 5 * (elapsedDays mod 7); its length is
\* min(5, max(0, N - startIndex)), so it is empty when startIndex >= N.
C1_WindowIsSlice ==
    (call.made /\ AtOrAfterEpoch(call.today)) =>
        LET c == days_since_start(call.today) % CycleLength
            startIndex == WindowSize * c
            w == call.daily_blogs
        IN  /\ Len(w) = Min(WindowSize, Max(0, N - startIndex))
            /\ \A j \in 1..Len(w) : w[j] = ALL_BLOGS[startIndex + j]
            /\ (startIndex >= N => w = <<>>)

\* a catalog of 33 records on cycle position 6: indices 30..32, length 3
C1_Witness ==
    /\ call.made
    /\ AtOrAfterEpoch(call.today)
    /\ N = 33
    /\ days_since_start(call.today) % CycleLength = 6
    /\ Len(call.daily_blogs) = 3
    /\ call.daily_blogs[1] = ALL_BLOGS[31]

\* does some record of blogs carry the name q, compared case-insensitively
Carries(blogs, q) ==
    \E i \in 1..Len(blogs) :
        /\ blogs[i].kind = "dict"
        /\ blogs[i].has_name
        /\ Lower(blogs[i].player_name) = Lower(q)

\* C2: for every catalog the loader accepts, records without player_name
\* included, GET /api/blogs/<name> answers 200 with a matching record of the
\* window iff the window has one, else 404 'Player not showing today' iff the
\* catalog has one, else 404 'Player not found'; nothing else is reachable.
C2_ThreeOutcomes ==
    (load_result = "ok" /\ response.endpoint = "api_player") =>
        LET q == response.query
            w == call.daily_blogs
        IN  IF Carries(w, q)
            THEN /\ response.status = 200
                 /\ \E i \in 1..Len(w) : response.blog = w[i]
                 /\ Lower(response.blog.player_name) = Lower(q)
            ELSE IF Carries(ALL_BLOGS, q)
            THEN /\ response.status = 404
                 /\ response.error = "Player not showing today"
            ELSE /\ response.status = 404
                 /\ response.error = "Player not found"

\* C3: whenever load_blogs_from_json fails, the catalog afterwards is
\* empty: ALL_BLOGS is the empty sequence and BLOGS_DATA the empty mapping.
C3_FailedLoadLeavesEmptyCatalog ==
    load_result = "failed" => (ALL_BLOGS = <<>> /\ BLOGS_DATA = EmptyDict)

\* on a given day the windows of distinct cycle positions do not overlap
WindowsDisjoint ==
    \A k1, k2 \in 0..(CycleLength - 1) :
        k1 # k2 => \A i \in 1..N : ~(InWindow(i, PlusDays(now, k1))
                                      /\ InWindow(i, PlusDays(now, k2)))

\* every record is in the window on one of the 7 days that start today
RevealedInSevenDays ==
    \A i \in 1..N : \E k \in 0..(CycleLength - 1) : InWindow(i, PlusDays(now, k))

\* C4 as stated: for a catalog of any length, every record is in the active
\* window on some day of any 7 consecutive UTC days, and the windows of
\* distinct cycle positions never overlap.
C4_AnyLengthRevealed ==
    load_result = "ok" => (RevealedInSevenDays /\ WindowsDisjoint)

\* C4 amended: the same for a catalog of at most 35 (7 * 5) records.
C4_RevealedUpTo35 ==
    (load_result = "ok" /\ N <= CycleLength * WindowSize) =>
        (RevealedInSevenDays /\ WindowsDisjoint)

\* a full catalog of 35 records served on the last day of the cycle
C4_Witness ==
    /\ load_result = "ok"
    /\ N = CycleLength * WindowSize
    /\ call.made
    /\ days_since_start(call.today) % CycleLength = CycleLength - 1
    /\ call.daily_blogs = WindowAt(CycleLength - 1)
    /\ Len(call.daily_blogs) = WindowSize

\* C5: for a fixed catalog, calls to get_daily_blogs on the same UTC calendar
\* day return the same window; as the clock advances the window changes only
\* at a UTC midnight, where cyclePosition goes from c to (c + 1) mod 7.
C5_StableWithinDay ==
    [][ LET before == get_daily_blogs(ALL_BLOGS', now)
            after == get_daily_blogs(ALL_BLOGS', now')
        IN  /\ now'.ordinal = now.ordinal =>
                (after = before /\ day_in_cycle(now') = day_in_cycle(now))
            /\ (after # before \/ day_in_cycle(now') # day_in_cycle(now)) =>
                /\ now'.ordinal = now.ordinal + 1
                /\ day_in_cycle(now') = (day_in_cycle(now) + 1) % CycleLength
      ]_vars

\* a request whose two clock reads straddle midnight: the window of the
\* instant after midnight differs from the one the call returned before it
C5_Witness ==
    /\ call.made
    /\ call.today.second = SecondsPerDay - 1
    /\ now = DateTime(call.today.ordinal + 1, 0)
    /\ call.daily_blogs # <<>>
    /\ get_daily_blogs(ALL_BLOGS, now) # call.daily_blogs

\* index of the last record whose lowercased name is k
LastNamed(k) ==
    CHOOSE i \in 1..N :
        /\ HasTruthyName(ALL_BLOGS[i]) /\ Lower(ALL_BLOGS[i].player_name) = k
        /\ \A j \in (i + 1)..N :
              ~(HasTruthyName(ALL_BLOGS[j]) /\ Lower(ALL_BLOGS[j].player_name) = k)

\* C6: after a successful load BLOGS_DATA holds each named record under its
\* lowercased player_name, nameless records skipped, the last record of a
\* name in file order winning; ALL_BLOGS keeps every record in file order.
C6_LowercaseIndex ==
    load_result = "ok" =>
        /\ ALL_BLOGS = file.items
        /\ DOMAIN BLOGS_DATA =
              { Lower(ALL_BLOGS[i].player_name) :
                    i \in { j \in 1..N : HasTruthyName(ALL_BLOGS[j]) } }
        /\ \A k \in DOMAIN BLOGS_DATA : BLOGS_DATA[k] = ALL_BLOGS[LastNamed(k)]

\* every record has a name and no two records have the same name
UniqueNames ==
    /\ \A i \in 1..N : HasTruthyName(ALL_BLOGS[i])
    /\ \A i, j \in 1..N : i # j => ALL_BLOGS[i].player_name # ALL_BLOGS[j].player_name

TruncatedDays(d) ==
    IF d >= 0 THEN d \div SecondsPerDay ELSE 0 - ((0 - d) \div SecondsPerDay)

\* C9 as stated: at every instant, before or after the epoch, elapsedDays is
\* the number of 24-hour days between the epoch and the instant truncated
\* toward zero, and cyclePosition = elapsedDays mod 7 lies in 0..6.
C9_TruncatedTowardZero ==
    call.clock_read =>
        /\ days_since_start(call.today) = TruncatedDays(SecondsSinceEpoch(call.today))
        /\ day_in_cycle(call.today) \in 0..(CycleLength - 1)

\* C9 amended: elapsedDays is the floor of the elapsed time in days (the
\* integer e with e days <= elapsed < e + 1 days, so -1 for an instant less
\* than 24 hours before the epoch), and cyclePosition = elapsedDays mod 7
\* lies in 0..6.
C9_Floored ==
    call.clock_read =>
        LET e == days_since_start(call.today)
            d == SecondsSinceEpoch(call.today)
            c == day_in_cycle(call.today)
        IN  /\ e * SecondsPerDay <= d
            /\ d < (e + 1) * SecondsPerDay
            /\ c \in 0..(CycleLength - 1)
            /\ (e - c) % CycleLength = 0

\* a call made one second before the epoch: elapsedDays is -1, position 6
C9_Witness ==
    /\ call.clock_read
    /\ call.today = DateTime(EpochOrdinal - 1, SecondsPerDay - 1)
    /\ days_since_start(call.today) = 0 - 1
    /\ day_in_cycle(call.today) = CycleLength - 1
    /\ call.daily_blogs = WindowAt(CycleLength - 1)

\* s is "a-b" with a <= b and b - a + 1 = n
IsRangeOf(s, n) ==
    \E a \in 1..((CycleLength * WindowSize) + 1) :
        LET b == a + n - 1
        IN  b >= a /\ s = FormatRange(a, b)

\* C10: every response of GET / and GET /api/blogs is consistent with the
\* day-in-cycle d it reports: the blogs / todays_players are the catalog
\* window of cycle position d - 1, and a blogs_range other than "None" is
\* "a-b" with a <= b and b - a + 1 = blogs_showing_today.
C10_ResponseConsistent ==
    /\ (response.endpoint = "api_blogs" /\ response.status = 200) =>
          /\ response.blogs = WindowAt(response.day_in_cycle - 1)
          /\ response.count = Len(response.blogs)
    /\ (response.endpoint = "home" /\ response.status = 200) =>
          /\ response.todays_players =
                PlayerNames(WindowAt(response.current_day_in_cycle - 1))
          /\ response.blogs_range # <<"N", "o", "n", "e">> =>
                IsRangeOf(response.blogs_range, response.blogs_showing_today)

====
